---- MODULE Spec2Model ----
(***************************************************************************)
(* The resilient multi-engine invocation layer of the OCR server:          *)
(*   - app/main.py        the /ocr handler (engine selection, fallback     *)
(*                        cascade, response construction)                  *)
(*   - app/qwen_ocr_robust.py  the primary adapter and its thread-based    *)
(*                        wait-with-timeout around model.generate          *)
(*   - app/paddle_ocr.py  the secondary adapter                            *)
(*                                                                         *)
(* The server runs one uvicorn worker (run_server.py:47) and the handler   *)
(* is an `async def` that calls the adapters synchronously, so from the    *)
(* last await of the upload (main.py:715) to the return the handler holds  *)
(* the event loop: `loop` names the request that holds it.  The only other *)
(* threads are the daemon threads started by _generate_with_timeout, which *)
(* keep running after the handler stopped waiting for them.                *)
(***************************************************************************)
EXTENDS Integers, Sequences, FiniteSets, TLC

\* Number of submissions a behaviour may contain.
MaxReq == 2

Req == 1..MaxReq

\* Number of threads that call one adapter at the same time.
MaxCallers == 3

Callers == 1..MaxCallers

\* Number of WebSocket clients a behaviour may contain.
MaxObservers == 2

Observers == 1..MaxObservers

\* Number of send_progress calls a behaviour may contain.
MaxBroadcasts == 2

\* The percentages a caller of send_progress may pass.
Percentages == {0, 100}

Backends == {"qwen", "paddle"}

\* Values of the `model` form field; every value other than "paddle" and
\* "qwen" takes the else branch of main.py:752.
Models == {"paddle", "qwen", "auto", "other"}

\* Values of the `language` form field: the default, which the page offers,
\* and a value that names no language.
Languages == {"eng", "xx"}

\* The languages the page offers (main.py:414-420).
OfferedLanguages == {"eng", "urd", "ara", "fra", "deu", "spa"}

\* The uploaded file: its content type and the suffix of its file name.
Uploads ==
    {[content_type |-> "image/png", ext |-> ".png"],
     [content_type |-> "text/plain", ext |-> ".txt"],
     [content_type |-> "application/octet-stream", ext |-> ".exe"]}

\* main.py:685-705: the upload passes the validation.
Supported(file) ==
    IF file.content_type = "application/octet-stream"
    THEN file.ext \in {".jpg", ".jpeg", ".png", ".webp", ".tiff", ".pdf"}
    ELSE file.content_type \in {"image/jpeg", "image/jpg", "image/png", "image/tiff",
                                "image/webp", "application/pdf", "application/octet-stream"}

\* Python's None (an absent Optional[str], an unset dict value).
None == "<None>"

\* Text an engine may extract; the empty string is "no text found".
Texts == {"", "two words"}

WordCount(text) == IF text = "" THEN 0 ELSE 2

TimeoutMsg == "Text generation timed out after 30s"

VARIABLES
    qwenAvail,     \* robust_qwen_ocr is not None (TRANSFORMERS_AVAILABLE)
    paddleAvail,   \* PADDLEOCR_AVAILABLE
    qwenLoaded,    \* robust_qwen_ocr.model_loaded
    paddleLoaded,  \* paddle_ocr.model_loaded
    paddleLang,    \* paddle_ocr.lang
    health,        \* the last answer of GET /health, or NoDict
    loop,          \* the request whose handler holds the event loop, or 0
    pc,            \* pc[r]: where request r's handler is
    model,         \* model[r]: the engine selector of request r
    lang,          \* lang[r]: the language of request r
    upload,        \* upload[r]: the file of request r
    result,        \* result[r]: the handler's local `result`
    attempts,      \* attempts[r]: the adapter calls made for r, in order
    progress,      \* progress[r]: the calls of r's progress_callback, in order
    response,      \* response[r]: what the client of r receives
    gen,           \* gen[r]: the `result` dict shared by _generate_with_timeout and its thread
    thread,        \* thread[r]: the generation thread started for r
    elapsed,       \* elapsed[r]: join returned because the deadline elapsed
    alive,         \* alive[r]: what thread.is_alive() returned
    built,         \* built[b]: how many times backend b's model object was constructed
    cpc,           \* cpc[t]: where thread t is in load_model (adapter called from several threads)
    cbackend,      \* cbackend[t]: the adapter thread t calls
    cout,          \* cout[t]: what load_model returned to thread t
    active_connections, \* manager.active_connections
    ws,            \* ws[o]: the /ws endpoint of client o (new, open, closed, crashed)
    bpc,           \* where the send_progress coroutine is
    bidx,          \* the index of the list iterator of send_progress's for loop
    bcur,          \* `connection`, the loop variable of send_progress (0: none)
    bdata,         \* `data`, the percentage of the event being broadcast
    bstart,        \* the clients registered when the current broadcast started
    btried,        \* the clients the current broadcast called send_text on
    bcount,        \* the number of send_progress calls so far
    received,      \* received[o]: the events delivered to client o, in order
    failed         \* the clients for which a send_text raised

vars == <<qwenAvail, paddleAvail, qwenLoaded, paddleLoaded, loop, pc, model, lang, upload,
          result, attempts, progress, response, gen, thread, elapsed, alive, built,
          cpc, cbackend, cout, active_connections, ws, bpc, bidx, bcur, bdata, bstart,
          btried, bcount, received, failed, paddleLang, health>>

\* What the import of the adapters' modules fixed; no request changes it.
importVars == <<qwenAvail, paddleAvail, paddleLang>>

callerVars == <<cpc, cbackend, cout>>

engineVars == <<qwenLoaded, paddleLoaded, built>>

managerVars == <<active_connections, ws, bpc, bidx, bcur, bdata, bstart, btried, bcount,
                 received, failed>>

handlerVars == <<loop, pc, model, lang, upload, result, attempts, progress, response, gen, thread,
                 elapsed, alive>>

----------------------------------------------------------------------------
(* Python dicts are records; d.get(k, default) is Get.                      *)

Get(d, k, default) == IF k \in DOMAIN d THEN d[k] ELSE default

NoDict == [unset |-> TRUE]

\* qwen_ocr_robust.py:375-386 (processing_time, model_name, device and
\* timeout_used carry no decision and are left out of every dict).
QwenSuccessResponse(language, text) ==
    [text |-> text, confidence |-> 90, language |-> language,
     engine |-> "Qwen2.5-VL-3B-Instruct (Robust)",
     word_count |-> WordCount(text), success |-> TRUE]

create_error_response(error_message) ==
    [text |-> "", confidence |-> 0, language |-> "unknown",
     engine |-> "Qwen2.5-VL-3B-Instruct (Robust)", word_count |-> 0,
     success |-> FALSE, error |-> error_message]

create_timeout_response(error_message) ==
    [text |-> "", confidence |-> 0, language |-> "unknown",
     engine |-> "Qwen2.5-VL-3B-Instruct (Timeout)", word_count |-> 0,
     success |-> FALSE, error |-> error_message,
     timeout_occurred |-> TRUE, fallback_recommended |-> TRUE]

\* paddle_ocr.py:120-138; _calculate_confidence gives 0 for an empty result.
PaddleSuccessResponse(language, text) ==
    [text |-> text, confidence |-> IF text = "" THEN 0 ELSE 93,
     language |-> language, engine |-> "PaddleOCR",
     word_count |-> WordCount(text), success |-> TRUE, demo_mode |-> FALSE]

create_demo_response(language) ==
    [text |-> "PaddleOCR demo mode - model not loaded", confidence |-> 85,
     language |-> language, engine |-> "PaddleOCR-demo", word_count |-> 6,
     success |-> TRUE, demo_mode |-> TRUE,
     error |-> "PaddleOCR not available - running in demo mode"]

\* main.py:740, 745, 751: the dict the handler builds itself.
HandlerFailureDict(e) ==
    [success |-> FALSE, error |-> e, text |-> "", confidence |-> 0]

\* Mutant of FallbackNeeded: only a timeout triggers the fallback.
FallbackNeeded_TimeoutOnly(res) == Get(res, "timeout_occurred", FALSE)

\* main.py:764-765: the test that sends an automatic request to PaddleOCR.
FallbackNeeded(res) ==
    \/ Get(res, "timeout_occurred", FALSE)
    \/ Get(res, "error", "") # ""
    \/ ~Get(res, "success", TRUE)

\* Mutant of MergeFallback: the test of main.py:773 inverted.
MergeFallback_Inverted(qwen_result, paddle_result) ==
    IF ~Get(paddle_result, "success", TRUE) THEN paddle_result ELSE qwen_result

\* main.py:773: the fallback's result replaces Qwen's only when it reports success.
MergeFallback(qwen_result, paddle_result) ==
    IF Get(paddle_result, "success", TRUE) THEN paddle_result ELSE qwen_result

\* main.py:807-818
OCRResponse(res, language) ==
    [success |-> TRUE,
     text |-> Get(res, "text", ""),
     confidence |-> Get(res, "confidence", 0),
     language |-> Get(res, "language", language),
     engine |-> Get(res, "engine", "qwen2.5-vl"),
     word_count |-> Get(res, "word_count", 0),
     error |-> Get(res, "error", None)]

\* main.py:820-833
OCRErrorResponse(language, e) ==
    [success |-> FALSE, text |-> "", confidence |-> 0, language |-> language,
     engine |-> "qwen2.5-vl", word_count |-> 0, error |-> e]

----------------------------------------------------------------------------
(* The outcome of one adapter call, kept as history for the properties:     *)
(* a raised error, a deadline that elapsed, or the returned dict's         *)
(* success flag.                                                            *)

Classify(raised, deadline, res) ==
    IF raised THEN "HardError"
    ELSE IF Get(res, "success", TRUE) THEN "Success"
    ELSE IF deadline THEN "Timeout"
    ELSE "SoftFailure"

Attempt(engine, raised, deadline, res) ==
    [engine |-> engine, outcome |-> Classify(raised, deadline, res), res |-> res]

Finished == {"done_ok", "done_err"}

\* qwen_ocr_robust.py:55-59
ModelCandidates == <<"Qwen/Qwen2.5-VL-3B-Instruct", "Qwen/Qwen-VL-Chat">>

\* qwen_ocr_robust.py:103-131: the percentages load_model reports while it
\* tries the first n candidates: 10 and 20 for each of them.
RECURSIVE CandidateEvents(_)
CandidateEvents(n) == IF n = 0 THEN <<>> ELSE <<10, 20>> \o CandidateEvents(n - 1)

\* The adapter `engine` of request r calls progress_callback(message, p) for
\* each p of `percents` (main.py:720-729 prints it and keeps the last one).
Emit(r, engine, percents) ==
    progress' = [progress EXCEPT ![r] =
                    @ \o [i \in 1..Len(percents) |-> [engine |-> engine, percent |-> percents[i]]]]

Init ==
    /\ qwenAvail \in BOOLEAN
    /\ paddleAvail \in BOOLEAN
       \* main.py:27: PaddleOCREngine(use_angle_cls=True, lang='en')
    /\ paddleLang = "en"
    /\ health = NoDict
    /\ qwenLoaded = FALSE
       \* PaddleOCREngine.__init__ calls load_model when the import worked
    /\ paddleLoaded \in (IF paddleAvail THEN BOOLEAN ELSE {FALSE})
    /\ loop = 0
    /\ pc = [r \in Req |-> "idle"]
    /\ model = [r \in Req |-> "auto"]
    /\ lang = [r \in Req |-> "eng"]
    /\ upload = [r \in Req |-> [content_type |-> "image/png", ext |-> ".png"]]
    /\ result = [r \in Req |-> NoDict]
    /\ attempts = [r \in Req |-> <<>>]
    /\ progress = [r \in Req |-> <<>>]
    /\ response = [r \in Req |-> NoDict]
    /\ gen = [r \in Req |-> NoDict]
    /\ thread = [r \in Req |-> "none"]
    /\ elapsed = [r \in Req |-> FALSE]
    /\ alive = [r \in Req |-> FALSE]
    /\ built = [b \in Backends |-> IF b = "paddle" /\ paddleLoaded THEN 1 ELSE 0]
    /\ cpc = [t \in Callers |-> "idle"]
    /\ cbackend = [t \in Callers |-> "qwen"]
    /\ cout = [t \in Callers |-> None]
    /\ active_connections = <<>>
    /\ ws = [o \in Observers |-> "new"]
    /\ bpc = "idle"
    /\ bidx = 0
    /\ bcur = 0
    /\ bdata = 0
    /\ bstart = {}
    /\ btried = {}
    /\ bcount = 0
    /\ received = [o \in Observers |-> <<>>]
    /\ failed = {}

----------------------------------------------------------------------------
(* The /ocr handler, main.py:677-833                                        *)

\* The locals of a handler that has returned are gone: f with the entry of
\* the request before r reset to `init`.
Forget(f, r, init) == IF r > 1 THEN [f EXCEPT ![r - 1] = init] ELSE f

\* Mutant of Submit: the handler without the validation of main.py:685-705.
Submit_Unvalidated(r) ==
    /\ loop = 0
    /\ pc[r] = "idle"
    /\ r > 1 => pc[r - 1] \in {"done", "rejected"}
    /\ \E m \in Models, l \in Languages, file \in Uploads :
          /\ model' = [Forget(model, r, "auto") EXCEPT ![r] = m]
          /\ lang' = [Forget(lang, r, "eng") EXCEPT ![r] = l]
          /\ upload' = [Forget(upload, r, [content_type |-> "image/png", ext |-> ".png"]) EXCEPT ![r] = file]
          /\ pc' = [Forget(pc, r, "closed") EXCEPT ![r] = "saving"]
    /\ result' = Forget(result, r, NoDict)
    /\ attempts' = Forget(attempts, r, <<>>)
    /\ progress' = Forget(progress, r, <<>>)
    /\ response' = Forget(response, r, NoDict)
    /\ gen' = Forget(gen, r, NoDict)
    /\ elapsed' = Forget(elapsed, r, FALSE)
    /\ alive' = Forget(alive, r, FALSE)
    /\ UNCHANGED <<importVars, health, callerVars, managerVars, built, qwenLoaded, paddleLoaded, loop, thread>>

\* main.py:685-705: the content type (or, for a generic binary upload, the
\* file extension) is validated; an unsupported one raises HTTP 400.
\* Requests are numbered in the order in which their handlers run: r starts
\* once the handler of r - 1 has returned (a handler that has started its
\* engine calls yields to no other handler before it returns).
Submit(r) ==
    /\ loop = 0
    /\ pc[r] = "idle"
    /\ r > 1 => pc[r - 1] \in {"done", "rejected"}
    /\ \E m \in Models, l \in Languages, file \in Uploads :
          /\ model' = [Forget(model, r, "auto") EXCEPT ![r] = m]
          /\ lang' = [Forget(lang, r, "eng") EXCEPT ![r] = l]
          /\ upload' = [Forget(upload, r, [content_type |-> "image/png", ext |-> ".png"]) EXCEPT ![r] = file]
          /\ pc' = [Forget(pc, r, "closed") EXCEPT ![r] = IF Supported(file) THEN "saving" ELSE "rejected"]
    /\ result' = Forget(result, r, NoDict)
    /\ attempts' = Forget(attempts, r, <<>>)
    /\ progress' = Forget(progress, r, <<>>)
    /\ response' = Forget(response, r, NoDict)
    /\ gen' = Forget(gen, r, NoDict)
    /\ elapsed' = Forget(elapsed, r, FALSE)
    /\ alive' = Forget(alive, r, FALSE)
    /\ UNCHANGED <<importVars, health, callerVars, managerVars, built, qwenLoaded, paddleLoaded, loop, thread>>

\* main.py:708-715: the upload is written with awaits; after the last one the
\* handler runs to its return without yielding.  A failed write is caught by
\* the handler's outer except.
SaveFile(r) ==
    /\ loop = 0
    /\ pc[r] = "saving"
    /\ \E saved \in BOOLEAN :
          IF saved
          THEN /\ loop' = r
               /\ pc' = [pc EXCEPT ![r] = "select"]
               /\ UNCHANGED response
          ELSE /\ response' = [response EXCEPT ![r] = OCRErrorResponse(lang[r], "upload could not be saved")]
               /\ pc' = [pc EXCEPT ![r] = "done"]
               /\ UNCHANGED loop
    /\ UNCHANGED <<importVars, health, callerVars, managerVars, progress, built, qwenLoaded, paddleLoaded, model, lang, upload, result,
                   attempts, gen, thread, elapsed, alive>>

\* A selection that turns an unrecognised selector away instead of treating
\* it as automatic (what main.py:746 does not do).
SelectEngine_RejectsUnknown(r) ==
    /\ loop = r
    /\ pc[r] = "select"
    /\ IF model[r] = "paddle"
       THEN /\ pc' = [pc EXCEPT ![r] = "p_call"]
            /\ UNCHANGED result
       ELSE IF model[r] = "qwen"
       THEN IF ~qwenAvail
            THEN /\ result' = [result EXCEPT ![r] = HandlerFailureDict("Qwen2.5-VL not available")]
                 /\ pc' = [pc EXCEPT ![r] = "respond"]
            ELSE /\ pc' = [pc EXCEPT ![r] = "q_call"]
                 /\ UNCHANGED result
       ELSE IF model[r] = "auto"
       THEN /\ pc' = [pc EXCEPT ![r] = IF ~qwenAvail THEN "p_call" ELSE "q_call"]
            /\ UNCHANGED result
       ELSE /\ result' = [result EXCEPT ![r] = HandlerFailureDict("Unknown engine")]
            /\ pc' = [pc EXCEPT ![r] = "respond"]
    /\ UNCHANGED <<importVars, health, callerVars, managerVars, progress, built, qwenLoaded, paddleLoaded, loop, model, lang, upload,
                   attempts, response, gen, thread, elapsed, alive>>

\* main.py:734-758: which adapter is called first.
SelectEngine(r) ==
    /\ loop = r
    /\ pc[r] = "select"
    /\ IF model[r] = "paddle"
       THEN /\ pc' = [pc EXCEPT ![r] = "p_call"]
            /\ UNCHANGED result
       ELSE IF model[r] = "qwen"
       THEN IF ~qwenAvail
            THEN /\ result' = [result EXCEPT ![r] = HandlerFailureDict("Qwen2.5-VL not available")]
                 /\ pc' = [pc EXCEPT ![r] = "respond"]
            ELSE /\ pc' = [pc EXCEPT ![r] = "q_call"]
                 /\ UNCHANGED result
       ELSE /\ pc' = [pc EXCEPT ![r] = IF ~qwenAvail THEN "p_call" ELSE "q_call"]
            /\ UNCHANGED result
    /\ UNCHANGED <<importVars, health, callerVars, managerVars, progress, built, qwenLoaded, paddleLoaded, loop, model, lang, upload,
                   attempts, response, gen, thread, elapsed, alive>>

\* Mutant of QwenReturns: the fallback test of main.py:764 applied in "qwen"
\* mode as well.
QwenReturns_AlwaysFallback(r, res, deadline) ==
    /\ attempts' = [attempts EXCEPT ![r] = Append(@, Attempt("qwen", FALSE, deadline, res))]
    /\ result' = [result EXCEPT ![r] = res]
    /\ pc' = [pc EXCEPT ![r] = IF FallbackNeeded(res) THEN "p_call" ELSE "respond"]

\* robust_qwen_ocr.extract_text returned `res` to the handler (main.py:748,
\* 761-765): in "qwen" mode it is the result; in automatic mode it is tested
\* for the fallback.
QwenReturns(r, res, deadline) ==
    /\ attempts' = [attempts EXCEPT ![r] = Append(@, Attempt("qwen", FALSE, deadline, res))]
    /\ result' = [result EXCEPT ![r] = res]
    /\ pc' = [pc EXCEPT ![r] =
                IF model[r] # "qwen" /\ FallbackNeeded(res) THEN "p_call" ELSE "respond"]

----------------------------------------------------------------------------
(* RobustQwenOCR.extract_text, qwen_ocr_robust.py:230-390.  Everything in   *)
(* it runs inside one try whose except returns an error response, so the    *)
(* adapter never raises an Exception to the handler.                        *)

\* qwen_ocr_robust.py:237-244 with load_model (91-198), which runs on the
\* handler's thread, outside _generate_with_timeout: it builds the model
\* (True), gives up on every loading approach (False), finds no loadable
\* candidate (raises, caught at 388), or does not return from loading the
\* model's weights.  A loaded model is kept and nothing is reported for it;
\* otherwise 0 is reported, then 10 and 20 for each of the `tried` candidates
\* whose processor is loaded (every one before the last failed), then 40
\* before the weights are loaded and 60 after.
QwenLoad(r) ==
    /\ loop = r
    /\ pc[r] = "q_call"
    /\ IF qwenLoaded
       THEN /\ pc' = [pc EXCEPT ![r] = "q_prepare"]
            /\ UNCHANGED <<qwenLoaded, result, attempts, progress>>
       ELSE \E o \in {"loaded", "false", "raise", "never_returns"},
               tried \in 1..Len(ModelCandidates) :
              CASE o = "loaded" ->
                     /\ qwenLoaded' = TRUE
                     /\ pc' = [pc EXCEPT ![r] = "q_prepare"]
                     /\ Emit(r, "qwen", <<0>> \o CandidateEvents(tried) \o <<40, 60>>)
                     /\ UNCHANGED <<result, attempts>>
                [] o = "false" ->
                     /\ QwenReturns(r, create_error_response("Failed to load model"), FALSE)
                     /\ Emit(r, "qwen", <<0>> \o CandidateEvents(tried) \o <<40>>)
                     /\ UNCHANGED qwenLoaded
                [] o = "raise" ->
                     /\ tried = Len(ModelCandidates)
                     /\ QwenReturns(r, create_error_response("Failed to load any compatible model"), FALSE)
                     /\ Emit(r, "qwen", <<0>> \o CandidateEvents(tried))
                     /\ UNCHANGED qwenLoaded
                [] o = "never_returns" ->
                     /\ pc' = [pc EXCEPT ![r] = "q_load_blocked"]
                     /\ Emit(r, "qwen", <<0>> \o CandidateEvents(tried) \o <<40>>)
                     /\ UNCHANGED <<qwenLoaded, result, attempts>>
    /\ built' = [built EXCEPT !["qwen"] = IF qwenLoaded' /\ ~qwenLoaded THEN @ + 1 ELSE @]
    /\ UNCHANGED <<importVars, health, callerVars, managerVars, paddleLoaded, loop, model, lang, upload, response, gen,
                   thread, elapsed, alive>>

\* qwen_ocr_robust.py:246-339 and 200-216: 70 is reported, the image is
\* opened and the inputs are built (either may fail), 80 is reported, then
\* _generate_with_timeout creates its result dict and starts the generation
\* thread.
QwenPrepare(r) ==
    /\ loop = r
    /\ pc[r] = "q_prepare"
    /\ \E o \in {"started", "bad_image", "raise"} :
          CASE o = "started" ->
                 /\ gen' = [gen EXCEPT ![r] = [success |-> FALSE, output |-> None, error |-> None]]
                 /\ thread' = [thread EXCEPT ![r] = "running"]
                 /\ pc' = [pc EXCEPT ![r] = "q_join"]
                 /\ Emit(r, "qwen", <<70, 80>>)
                 /\ UNCHANGED <<result, attempts>>
            [] o = "bad_image" ->
                 /\ QwenReturns(r, create_error_response("Failed to load image"), FALSE)
                 /\ Emit(r, "qwen", <<70>>)
                 /\ UNCHANGED <<gen, thread>>
            [] o = "raise" ->
                 /\ QwenReturns(r, create_error_response("processor error"), FALSE)
                 /\ Emit(r, "qwen", <<70>>)
                 /\ UNCHANGED <<gen, thread>>
    /\ UNCHANGED <<importVars, health, callerVars, managerVars, built, qwenLoaded, paddleLoaded, loop, model, lang, upload,
                   response, elapsed, alive>>

\* Mutant of JoinWithTimeout: thread.join() without the timeout.
JoinWithoutTimeout(r) ==
    /\ loop = r
    /\ pc[r] = "q_join"
    /\ thread[r] \in Finished
    /\ elapsed' = [elapsed EXCEPT ![r] = FALSE]
    /\ pc' = [pc EXCEPT ![r] = "q_alive"]
    /\ UNCHANGED <<importVars, health, callerVars, managerVars, progress, built, qwenLoaded, paddleLoaded, loop, model, lang, upload, result,
                   attempts, response, gen, thread, alive>>

\* qwen_ocr_robust.py:219: thread.join(timeout=self.timeout) returns when the
\* thread has finished or when the deadline has elapsed, whichever is first.
JoinWithTimeout(r) ==
    /\ loop = r
    /\ pc[r] = "q_join"
    /\ elapsed' = [elapsed EXCEPT ![r] = thread[r] \notin Finished]
    /\ pc' = [pc EXCEPT ![r] = "q_alive"]
    /\ UNCHANGED <<importVars, health, callerVars, managerVars, progress, built, qwenLoaded, paddleLoaded, loop, model, lang, upload, result,
                   attempts, response, gen, thread, alive>>

\* qwen_ocr_robust.py:221
IsAlive(r) ==
    /\ loop = r
    /\ pc[r] = "q_alive"
    /\ alive' = [alive EXCEPT ![r] = thread[r] \notin Finished]
    /\ pc' = [pc EXCEPT ![r] = IF thread[r] \notin Finished THEN "q_wr_error" ELSE "q_check"]
    /\ UNCHANGED <<importVars, health, callerVars, managerVars, progress, built, qwenLoaded, paddleLoaded, loop, model, lang, upload, result,
                   attempts, response, gen, thread, elapsed>>

\* qwen_ocr_robust.py:224
WriteTimeoutError(r) ==
    /\ loop = r
    /\ pc[r] = "q_wr_error"
    /\ gen' = [gen EXCEPT ![r].error = TimeoutMsg]
    /\ pc' = [pc EXCEPT ![r] = "q_wr_success"]
    /\ UNCHANGED <<importVars, health, callerVars, managerVars, progress, built, qwenLoaded, paddleLoaded, loop, model, lang, upload, result,
                   attempts, response, thread, elapsed, alive>>

\* qwen_ocr_robust.py:225-228: the invoker returns without joining the thread.
WriteTimeoutFailure(r) ==
    /\ loop = r
    /\ pc[r] = "q_wr_success"
    /\ gen' = [gen EXCEPT ![r].success = FALSE]
    /\ pc' = [pc EXCEPT ![r] = "q_check"]
    /\ UNCHANGED <<importVars, health, callerVars, managerVars, progress, built, qwenLoaded, paddleLoaded, loop, model, lang, upload, result,
                   attempts, response, thread, elapsed, alive>>

\* qwen_ocr_robust.py:341
CheckGeneration(r) ==
    /\ loop = r
    /\ pc[r] = "q_check"
    /\ pc' = [pc EXCEPT ![r] = IF ~gen[r].success THEN "q_failed" ELSE "q_decode"]
    /\ UNCHANGED <<importVars, health, callerVars, managerVars, progress, built, qwenLoaded, paddleLoaded, loop, model, lang, upload, result,
                   attempts, response, gen, thread, elapsed, alive>>

\* qwen_ocr_robust.py:342-344: every failed generation, whether the deadline
\* elapsed or the thread raised, is answered with _create_timeout_response.
GenerationFailed(r) ==
    /\ loop = r
    /\ pc[r] = "q_failed"
    /\ QwenReturns(r, create_timeout_response(gen[r].error), alive[r])
    /\ UNCHANGED <<importVars, health, callerVars, managerVars, progress, built, qwenLoaded, paddleLoaded, loop, model, lang, upload,
                   response, gen, thread, elapsed, alive>>

\* qwen_ocr_robust.py:346-386: the output is decoded (which may raise, and
\* raises on an output of None), 100 is reported and the success dict is
\* returned.
DecodeOutput(r) ==
    /\ loop = r
    /\ pc[r] = "q_decode"
    /\ IF gen[r].output = None
       THEN /\ QwenReturns(r, create_error_response("'NoneType' object is not subscriptable"), FALSE)
            /\ UNCHANGED progress
       ELSE \E o \in {"decoded", "raise"} :
              IF o = "decoded"
              THEN /\ \E text \in Texts : QwenReturns(r, QwenSuccessResponse(lang[r], text), FALSE)
                   /\ Emit(r, "qwen", <<100>>)
              ELSE /\ QwenReturns(r, create_error_response("decode error"), FALSE)
                   /\ UNCHANGED progress
    /\ UNCHANGED <<importVars, health, callerVars, managerVars, built, qwenLoaded, paddleLoaded, loop, model, lang, upload,
                   response, gen, thread, elapsed, alive>>

----------------------------------------------------------------------------
(* target(), qwen_ocr_robust.py:204-211: the generation thread.  It is a    *)
(* daemon thread that nothing stops; model.generate may return, raise or    *)
(* never return.                                                           *)

\* The thread's write result[k] = v.  Once the handler that owns the dict
\* has returned, the thread holds the only reference and nothing reads it.
ThreadWrites(r, k, v) ==
    IF pc[r] = "closed" THEN gen ELSE [gen EXCEPT ![r] = [@ EXCEPT ![k] = v]]

\* qwen_ocr_robust.py:207-208
GenerateReturns(r) ==
    /\ thread[r] = "running"
    /\ thread' = [thread EXCEPT ![r] = "wrote_output"]
    /\ gen' = ThreadWrites(r, "output", "generated_ids")
    /\ UNCHANGED <<importVars, health, callerVars, managerVars, progress, built, qwenLoaded, paddleLoaded, loop, pc, model, lang, upload,
                   result, attempts, response, elapsed, alive>>

\* qwen_ocr_robust.py:209
TargetWritesSuccess(r) ==
    /\ thread[r] = "wrote_output"
    /\ thread' = [thread EXCEPT ![r] = "done_ok"]
    /\ gen' = ThreadWrites(r, "success", TRUE)
    /\ UNCHANGED <<importVars, health, callerVars, managerVars, progress, built, qwenLoaded, paddleLoaded, loop, pc, model, lang, upload,
                   result, attempts, response, elapsed, alive>>

\* qwen_ocr_robust.py:210-211
GenerateRaises(r) ==
    /\ thread[r] = "running"
    /\ thread' = [thread EXCEPT ![r] = "done_err"]
    /\ gen' = ThreadWrites(r, "error", "generation error")
    /\ UNCHANGED <<importVars, health, callerVars, managerVars, progress, built, qwenLoaded, paddleLoaded, loop, pc, model, lang, upload,
                   result, attempts, response, elapsed, alive>>

\* model.generate never returns (the hang the timeout exists for).
GenerateHangs(r) ==
    /\ thread[r] = "running"
    /\ thread' = [thread EXCEPT ![r] = "hung"]
    /\ UNCHANGED <<importVars, health, callerVars, managerVars, progress, built, qwenLoaded, paddleLoaded, loop, pc, model, lang, upload,
                   result, attempts, response, gen, elapsed, alive>>

----------------------------------------------------------------------------
(* PaddleOCREngine.extract_text, paddle_ocr.py:68-142, as the handler calls *)
(* it (main.py:737, 757, 772): directly on the handler's thread.            *)

\* paddle_ocr.extract_text returned `res`: main.py:737 and 757 take it as the
\* result; main.py:772-775 merges it with Qwen's failed result.
PaddleReturns(r, res) ==
    /\ attempts' = [attempts EXCEPT ![r] = Append(@, Attempt("paddle", FALSE, FALSE, res))]
    /\ result' = [result EXCEPT ![r] =
                    IF attempts[r] = <<>> THEN res ELSE MergeFallback(result[r], res)]
    /\ pc' = [pc EXCEPT ![r] = "respond"]
    /\ UNCHANGED <<loop, response>>

\* Mutant of PaddleRaises: the except of main.py:776-778 replaces the result
\* with a failure dict of the fallback's error.
PaddleRaises_OverwritesResult(r, e) ==
    /\ attempts' = [attempts EXCEPT ![r] = Append(@, Attempt("paddle", TRUE, FALSE, [exception |-> e]))]
    /\ IF model[r] = "paddle" \/ attempts[r] # <<>>
       THEN /\ result' = [result EXCEPT ![r] = HandlerFailureDict(e)]
            /\ pc' = [pc EXCEPT ![r] = "respond"]
            /\ UNCHANGED <<loop, response>>
       ELSE /\ response' = [response EXCEPT ![r] = OCRErrorResponse(lang[r], e)]
            /\ pc' = [pc EXCEPT ![r] = "done"]
            /\ loop' = 0
            /\ UNCHANGED result

\* Mutant of PaddleRaises: the call of main.py:757 without the outer except
\* of main.py:820, so that the exception leaves the handler.
PaddleRaises_Uncaught(r, e) ==
    /\ attempts' = [attempts EXCEPT ![r] = Append(@, Attempt("paddle", TRUE, FALSE, [exception |-> e]))]
    /\ IF model[r] = "paddle"
       THEN /\ result' = [result EXCEPT ![r] = HandlerFailureDict(e)]
            /\ pc' = [pc EXCEPT ![r] = "respond"]
            /\ UNCHANGED <<loop, response>>
       ELSE IF attempts[r] # <<>>
       THEN /\ pc' = [pc EXCEPT ![r] = "respond"]
            /\ UNCHANGED <<result, loop, response>>
       ELSE /\ pc' = [pc EXCEPT ![r] = "crashed"]
            /\ loop' = 0
            /\ UNCHANGED <<result, response>>

\* paddle_ocr.extract_text raised `e`: main.py:738-740 ("paddle" mode) builds
\* a failure dict; main.py:776-778 (fallback) keeps Qwen's result; the call at
\* main.py:757 has no handler of its own, so the outer except (820-833) answers.
PaddleRaises(r, e) ==
    /\ attempts' = [attempts EXCEPT ![r] = Append(@, Attempt("paddle", TRUE, FALSE, [exception |-> e]))]
    /\ IF model[r] = "paddle"
       THEN /\ result' = [result EXCEPT ![r] = HandlerFailureDict(e)]
            /\ pc' = [pc EXCEPT ![r] = "respond"]
            /\ UNCHANGED <<loop, response>>
       ELSE IF attempts[r] # <<>>
       THEN /\ pc' = [pc EXCEPT ![r] = "respond"]
            /\ UNCHANGED <<result, loop, response>>
       ELSE /\ response' = [response EXCEPT ![r] = OCRErrorResponse(lang[r], e)]
            /\ pc' = [pc EXCEPT ![r] = "done"]
            /\ loop' = 0
            /\ UNCHANGED result

\* paddle_ocr.py:79-142.  Progress is reported at 0 (entry), 20 (before
\* load_model), 50 (before the image is opened), 70 (before the OCR), 90 and
\* 100 (after it).  The progress callback is called outside the try
\* (lines 81-94), so a callback that raises escapes the adapter; every other
\* failure (import missing, load_model False, an exception while reading the
\* image or running the OCR) is answered with _create_demo_response; the call
\* has no deadline, so an OCR that never returns blocks the handler.
PaddleExtract(r) ==
    /\ loop = r
    /\ pc[r] = "p_call"
    /\ \E o \in {"text", "demo", "raise", "never_returns"} :
          CASE o = "raise" ->
                 /\ PaddleRaises(r, "progress callback failed")
                 /\ Emit(r, "paddle", <<0>>)
                 /\ UNCHANGED paddleLoaded
            [] o = "never_returns" ->
                 /\ paddleAvail
                 /\ pc' = [pc EXCEPT ![r] = "p_blocked"]
                 /\ Emit(r, "paddle", <<0, 20, 50, 70>>)
                 /\ UNCHANGED <<paddleLoaded, result, attempts, loop, response>>
            [] o = "demo" ->
                 \* not available, load_model failed, or the image could not
                 \* be opened or the OCR raised after a load
                 /\ \E loaded \in (IF paddleAvail THEN {paddleLoaded, TRUE} ELSE {FALSE}) :
                        /\ paddleLoaded' = loaded
                        /\ IF ~paddleAvail THEN Emit(r, "paddle", <<0>>)
                           ELSE IF ~loaded THEN Emit(r, "paddle", <<0, 20>>)
                           ELSE \E seen \in {<<0, 20, 50>>, <<0, 20, 50, 70>>} :
                                   Emit(r, "paddle", seen)
                 /\ PaddleReturns(r, create_demo_response(lang[r]))
            [] o = "text" ->
                 /\ paddleAvail
                 /\ paddleLoaded' = TRUE
                 /\ Emit(r, "paddle", <<0, 20, 50, 70, 90, 100>>)
                 /\ \E text \in Texts : PaddleReturns(r, PaddleSuccessResponse(lang[r], text))
    /\ built' = [built EXCEPT !["paddle"] = IF paddleLoaded' /\ ~paddleLoaded THEN @ + 1 ELSE @]
    /\ UNCHANGED <<importVars, health, callerVars, managerVars, qwenLoaded, model, lang, upload, gen, thread, elapsed, alive>>

\* main.py:800-818: the response is built from `result` and returned.
Respond(r) ==
    /\ loop = r
    /\ pc[r] = "respond"
    /\ response' = [response EXCEPT ![r] = OCRResponse(result[r], lang[r])]
    /\ pc' = [pc EXCEPT ![r] = "done"]
    /\ loop' = 0
    /\ UNCHANGED <<importVars, health, callerVars, managerVars, progress, built, qwenLoaded, paddleLoaded, model, lang, upload, result,
                   attempts, gen, thread, elapsed, alive>>

\* The steps of the thread that runs the handler.
HandlerStep(r) ==
    \/ SaveFile(r)
    \/ SelectEngine(r)
    \/ QwenLoad(r)
    \/ QwenPrepare(r)
    \/ JoinWithTimeout(r)
    \/ IsAlive(r)
    \/ WriteTimeoutError(r)
    \/ WriteTimeoutFailure(r)
    \/ CheckGeneration(r)
    \/ GenerationFailed(r)
    \/ DecodeOutput(r)
    \/ PaddleExtract(r)
    \/ Respond(r)

\* The steps of the generation thread.
ThreadStep(r) ==
    \/ GenerateReturns(r)
    \/ TargetWritesSuccess(r)
    \/ GenerateRaises(r)
    \/ GenerateHangs(r)

----------------------------------------------------------------------------
(* load_model called from several threads at once.  The adapters are        *)
(* module-level singletons whose extract_text starts with load_model; the   *)
(* methods take no lock, so a thread's steps interleave with the others'.   *)

\* Mutant of LoadCheck: load_model without the test of self.model_loaded.
LoadCheck_AlwaysConstruct(t) ==
    /\ cpc[t] = "idle"
    /\ \E b \in Backends :
          /\ cbackend' = [cbackend EXCEPT ![t] = b]
          /\ cpc' = [cpc EXCEPT ![t] = "constructing"]
          /\ UNCHANGED cout
    /\ UNCHANGED <<importVars, health, handlerVars, managerVars, qwenLoaded, paddleLoaded, built>>

\* extract_text is entered on thread t (qwen_ocr_robust.py:239-243,
\* paddle_ocr.py:90) and load_model reads self.model_loaded
\* (qwen_ocr_robust.py:93-94, paddle_ocr.py:47-48).
LoadCheck(t) ==
    /\ cpc[t] = "idle"
    /\ \E b \in Backends :
          /\ cbackend' = [cbackend EXCEPT ![t] = b]
          /\ IF (IF b = "qwen" THEN qwenLoaded ELSE paddleLoaded)
             THEN /\ cpc' = [cpc EXCEPT ![t] = "returned"]
                  /\ cout' = [cout EXCEPT ![t] = "True"]
             ELSE /\ cpc' = [cpc EXCEPT ![t] = "constructing"]
                  /\ UNCHANGED cout
    /\ UNCHANGED <<importVars, health, handlerVars, managerVars, qwenLoaded, paddleLoaded, built>>

\* Mutant of LoadConstruct: a failed construction is remembered by marking
\* the adapter loaded, so that later calls do not construct again.
LoadConstruct_CachesFailure(t) ==
    /\ cpc[t] = "constructing"
    /\ \E ok \in BOOLEAN :
          IF ok
          THEN /\ built' = [built EXCEPT ![cbackend[t]] = @ + 1]
               /\ cpc' = [cpc EXCEPT ![t] = "constructed"]
               /\ UNCHANGED <<cout, qwenLoaded, paddleLoaded>>
          ELSE /\ cpc' = [cpc EXCEPT ![t] = "returned"]
               /\ cout' = [cout EXCEPT ![t] = "False"]
               /\ IF cbackend[t] = "qwen"
                  THEN qwenLoaded' = TRUE /\ UNCHANGED paddleLoaded
                  ELSE paddleLoaded' = TRUE /\ UNCHANGED qwenLoaded
               /\ UNCHANGED built
    /\ UNCHANGED <<importVars, health, handlerVars, managerVars, cbackend>>

\* The model object is constructed (qwen_ocr_robust.py:117-186: from_pretrained
\* for the processor and the model; paddle_ocr.py:56-59: PaddleOCR(...)); a
\* failed construction makes load_model return False (or raise, for Qwen,
\* which extract_text reports the same way).
LoadConstruct(t) ==
    /\ cpc[t] = "constructing"
    /\ \E ok \in BOOLEAN :
          IF ok
          THEN /\ built' = [built EXCEPT ![cbackend[t]] = @ + 1]
               /\ cpc' = [cpc EXCEPT ![t] = "constructed"]
               /\ UNCHANGED cout
          ELSE /\ cpc' = [cpc EXCEPT ![t] = "returned"]
               /\ cout' = [cout EXCEPT ![t] = "False"]
               /\ UNCHANGED built
    /\ UNCHANGED <<importVars, health, handlerVars, managerVars, qwenLoaded, paddleLoaded, cbackend>>

\* qwen_ocr_robust.py:193-194, paddle_ocr.py:60-62
LoadSetLoaded(t) ==
    /\ cpc[t] = "constructed"
    /\ IF cbackend[t] = "qwen"
       THEN qwenLoaded' = TRUE /\ UNCHANGED paddleLoaded
       ELSE paddleLoaded' = TRUE /\ UNCHANGED qwenLoaded
    /\ cpc' = [cpc EXCEPT ![t] = "returned"]
    /\ cout' = [cout EXCEPT ![t] = "True"]
    /\ UNCHANGED <<importVars, health, handlerVars, managerVars, built, cbackend>>

\* Both adapters importable, neither model loaded yet (PaddleOCREngine's
\* constructor tried and failed), no request in the server.
InitLoad ==
    /\ Init
    /\ qwenAvail
    /\ paddleAvail
    /\ ~paddleLoaded

NextLoad ==
    \E t \in Callers :
        \/ LoadCheck(t)
        \/ LoadConstruct(t)
        \/ LoadSetLoaded(t)

SpecLoad == InitLoad /\ [][NextLoad]_vars

\* Language codes of PaddleOCR (paddle_ocr.py:224-230): the one the server
\* constructs its engine with, and another one.
PaddleLangs == {"en", "ch"}

\* paddle_ocr.py:210-222: thread t calls paddle_ocr.set_language(l) with a
\* language other than the current one: the language is stored,
\* model_loaded is reset and load_model constructs the model again.
SetLanguage(t, l) ==
    /\ cpc[t] = "idle"
    /\ l # paddleLang
    /\ paddleLang' = l
    /\ paddleLoaded' = FALSE
    /\ cbackend' = [cbackend EXCEPT ![t] = "paddle"]
    /\ cpc' = [cpc EXCEPT ![t] = "constructing"]
    /\ UNCHANGED <<qwenAvail, paddleAvail, health, handlerVars, managerVars, qwenLoaded, built, cout>>

\* Every operation of the adapters that touches model_loaded, called from
\* several threads.
NextAdapter ==
    \/ NextLoad
    \/ \E t \in Callers, l \in PaddleLangs : SetLanguage(t, l)

SpecAdapter == InitLoad /\ [][NextAdapter]_vars

Next ==
    \E r \in Req :
        \/ Submit(r)
        \/ HandlerStep(r)
        \/ ThreadStep(r)

----------------------------------------------------------------------------
(* ConnectionManager, main.py:33-55, and the /ws endpoint, main.py:657-666.  *)
(* They are coroutines of the one event loop: a step runs from one await to *)
(* the next, and none runs while an /ocr handler holds the loop.            *)

InList(o) == \E i \in 1..Len(active_connections) : active_connections[i] = o

\* list.remove(x): s without the first occurrence of x.
ListRemove(s, x) ==
    LET i == CHOOSE k \in 1..Len(s) : s[k] = x /\ \A j \in 1..(k - 1) : s[j] # x
    IN  SubSeq(s, 1, i - 1) \o SubSeq(s, i + 1, Len(s))

\* main.py:657-660 and 38-40: client o opens /ws; the socket is accepted and
\* appended to the list.
Connect(o) ==
    /\ loop = 0
    /\ ws[o] = "new"
    /\ ws' = [ws EXCEPT ![o] = "open"]
    /\ active_connections' = Append(active_connections, o)
    /\ UNCHANGED <<importVars, health, callerVars, handlerVars, engineVars, bpc, bidx, bcur, bdata,
                   bstart, btried, bcount, received, failed>>

\* main.py:661-666 and 42-43: client o went away, receive_text raises
\* WebSocketDisconnect and the endpoint calls manager.disconnect, whose
\* list.remove raises ValueError when send_progress removed the socket first.
Disconnect(o) ==
    /\ loop = 0
    /\ ws[o] = "open"
    /\ IF InList(o)
       THEN /\ active_connections' = ListRemove(active_connections, o)
            /\ ws' = [ws EXCEPT ![o] = "closed"]
       ELSE /\ ws' = [ws EXCEPT ![o] = "crashed"]
            /\ UNCHANGED active_connections
    /\ UNCHANGED <<importVars, health, callerVars, handlerVars, engineVars, bpc, bidx, bcur, bdata,
                   bstart, btried, bcount, received, failed>>

\* The for loop of main.py:48 asks its list iterator for the next element:
\* the iterator holds an index into the list as it is now (`conns`), and the
\* loop ends when the index has reached the list's length.
NextConnection(conns, idx) ==
    IF idx < Len(conns)
    THEN /\ bcur' = conns[idx + 1]
         /\ bidx' = idx + 1
         /\ bpc' = "sending"
         /\ btried' = btried \cup {conns[idx + 1]}
    ELSE /\ bcur' = 0
         /\ bidx' = idx
         /\ bpc' = "idle"
         /\ UNCHANGED btried

\* main.py:45-50: send_progress(message, p) is called; it runs to the first
\* await of send_text, or to its end when the list is empty.
StartBroadcast(p) ==
    /\ loop = 0
    /\ bpc = "idle"
    /\ bcount < MaxBroadcasts
    /\ bcount' = bcount + 1
    /\ bdata' = p
    /\ bstart' = {o \in Observers : InList(o)}
    /\ IF active_connections = <<>>
       THEN /\ bpc' = "idle"
            /\ bcur' = 0
            /\ bidx' = 0
            /\ btried' = {}
       ELSE /\ bcur' = active_connections[1]
            /\ bidx' = 1
            /\ bpc' = "sending"
            /\ btried' = {active_connections[1]}
    /\ UNCHANGED <<importVars, health, callerVars, handlerVars, engineVars, active_connections, ws,
                   received, failed>>

\* main.py:50: the awaited send_text completed; the loop goes on.
SendCompletes ==
    /\ loop = 0
    /\ bpc = "sending"
    /\ received' = [received EXCEPT ![bcur] = Append(@, bdata)]
    /\ NextConnection(active_connections, bidx)
    /\ UNCHANGED <<importVars, health, callerVars, handlerVars, engineVars, active_connections, ws,
                   bdata, bstart, bcount, failed>>

\* Mutant of SendRaises: the except of main.py:51 without the removal.
SendRaises_KeepObserver ==
    /\ loop = 0
    /\ bpc = "sending"
    /\ failed' = failed \cup {bcur}
    /\ NextConnection(active_connections, bidx)
    /\ UNCHANGED <<importVars, health, callerVars, handlerVars, engineVars, active_connections, ws,
                   bdata, bstart, bcount, received>>

\* main.py:51-53: the awaited send_text raised; the connection is removed
\* from the list that the for loop is iterating, and the loop goes on with
\* the iterator's index unchanged.  A connection that the endpoint removed
\* during the await makes list.remove raise out of send_progress.
SendRaises ==
    /\ loop = 0
    /\ bpc = "sending"
    /\ failed' = failed \cup {bcur}
    /\ IF InList(bcur)
       THEN /\ active_connections' = ListRemove(active_connections, bcur)
            /\ NextConnection(active_connections', bidx)
       ELSE /\ bpc' = "raised"
            /\ UNCHANGED <<active_connections, bcur, bidx, btried>>
    /\ UNCHANGED <<importVars, health, callerVars, handlerVars, engineVars, ws, bdata, bstart, bcount,
                   received>>

\* main.py:50: the awaited send_text never completes (a client that stopped
\* reading); send_progress has no timeout around it.
SendNeverCompletes ==
    /\ loop = 0
    /\ bpc = "sending"
    /\ bpc' = "stuck"
    /\ UNCHANGED <<importVars, health, callerVars, handlerVars, engineVars, active_connections, ws,
                   bidx, bcur, bdata, bstart, btried, bcount, received, failed>>

\* The steps of the send_progress coroutine after its start.
BroadcastStep ==
    \/ SendCompletes
    \/ SendRaises

\* Mutant of HealthCheck: the probe reports whether the adapter exists.
HealthCheck_ReportsAvailability ==
    /\ loop = 0
    /\ health' = [status |-> "healthy", model_loaded |-> qwenAvail]
    /\ health' # health
    /\ UNCHANGED <<importVars, callerVars, handlerVars, engineVars, managerVars>>

\* main.py:668-675: GET /health, a coroutine of the same event loop.  (A
\* probe whose answer equals the last one changes nothing.)
HealthCheck ==
    /\ loop = 0
    /\ health' = [status |-> "healthy", model_loaded |-> (qwenAvail /\ qwenLoaded)]
    /\ health' # health
    /\ UNCHANGED <<importVars, callerVars, handlerVars, engineVars, managerVars>>

\* The /ocr handlers and the health probe.
NextProbe ==
    \/ Next
    \/ HealthCheck

SpecProbe == Init /\ [][NextProbe]_vars

\* The server: the /ocr handlers, the /ws endpoints and the health probe.
\* Nothing in it calls manager.send_progress.
NextServer ==
    \/ Next
    \/ \E o \in Observers : Connect(o) \/ Disconnect(o)
    \/ HealthCheck

SpecServer == Init /\ [][NextServer]_vars

\* The ConnectionManager with a caller of send_progress, one call at a time.
NextBroadcast ==
    \/ \E o \in Observers : Connect(o) \/ Disconnect(o)
    \/ \E p \in Percentages : StartBroadcast(p)
    \/ BroadcastStep
    \/ SendNeverCompletes

SpecBroadcast == Init /\ [][NextBroadcast]_vars

Spec == Init /\ [][Next]_vars

\* The handler's thread runs whenever it can; the generation threads and the
\* clients are promised nothing.
FairSpec == Spec /\ \A r \in Req : WF_vars(HandlerStep(r))

----------------------------------------------------------------------------
(* Vocabulary of the properties                                            *)

Responded(r) == pc[r] = "done"

\* Every selector value except "paddle" and "qwen" runs the cascade.
Automatic(r) == model[r] \notin {"paddle", "qwen"}

Failures == {"SoftFailure", "Timeout", "HardError"}

PrimaryAttempted(r) == attempts[r] # <<>> /\ attempts[r][1].engine = "qwen"

PrimaryOutcome(r) == IF PrimaryAttempted(r) THEN attempts[r][1].outcome ELSE "none"

\* paddle_ocr.extract_text has been entered for r (it returned, raised, or
\* is still running).
SecondaryInvoked(r) ==
    \/ pc[r] = "p_blocked"
    \/ \E i \in 1..Len(attempts[r]) : attempts[r][i].engine = "paddle"

\* The cascade of an automatic request has made its decisions.
CascadeDecided(r) ==
    /\ Automatic(r)
    /\ pc[r] \in {"respond", "done", "p_blocked"}
    /\ attempts[r] # <<>> \/ pc[r] = "p_blocked"

AllAttemptsFailed(r) ==
    /\ attempts[r] # <<>>
    /\ \A i \in 1..Len(attempts[r]) : attempts[r][i].outcome \in Failures

\* The error text of an attempt: the message of what it raised, or the
\* error entry of the dict it returned.
AttemptError(att) ==
    IF "exception" \in DOMAIN att.res THEN att.res.exception ELSE Get(att.res, "error", None)

\* The attempt messages an error text of the response contains.  No reachable
\* statement of the handler concatenates messages (main.py:797 is behind an
\* except that RobustQwenOCR.extract_text never triggers), so an error text
\* contains exactly itself.
MessagesIn(error) == {error}

ReportedFields == {"text", "confidence", "language", "engine", "word_count"}

----------------------------------------------------------------------------
(* Properties                                                              *)

\* C1: every returned result has success=false => error present and
\* non-empty, and success=true => error absent.
C1_ErrorIffFailure ==
    \A r \in Req :
        Responded(r) =>
            /\ ~response[r].success => response[r].error \notin {None, ""}
            /\ response[r].success => response[r].error = None

\* C2 (as stated): in automatic mode the secondary engine is invoked if and
\* only if the primary attempt's outcome is SoftFailure, Timeout or HardError.
C2_FallbackIffPrimaryFailed ==
    \A r \in Req :
        CascadeDecided(r) => (SecondaryInvoked(r) <=> PrimaryOutcome(r) \in Failures)

\* C2 (amended): in automatic mode with the primary adapter available, the
\* primary is attempted and the secondary is invoked if and only if the
\* primary's outcome is SoftFailure, Timeout or HardError (never after a
\* Success); with the primary adapter unavailable no primary attempt is made
\* and the secondary is invoked directly.
C2_FallbackIffPrimaryFailedOrUnavailable ==
    \A r \in Req :
        CascadeDecided(r) =>
            IF qwenAvail
            THEN /\ PrimaryAttempted(r)
                 /\ SecondaryInvoked(r) <=> PrimaryOutcome(r) \in Failures
            ELSE ~PrimaryAttempted(r) /\ SecondaryInvoked(r)

C2_Witness ==
    \E r \in Req :
        /\ CascadeDecided(r)
        /\ PrimaryOutcome(r) = "Timeout"
        /\ Len(attempts[r]) = 2
        /\ attempts[r][2].engine = "paddle"

\* C3: the returned result is that of the first attempt whose outcome is
\* Success, with text, confidence, language, engine and word count unchanged,
\* and no engine is attempted after it.
C3_FirstSuccessWins ==
    \A r \in Req : \A i \in 1..Len(attempts[r]) :
        (/\ attempts[r][i].outcome = "Success"
         /\ \A j \in 1..(i - 1) : attempts[r][j].outcome # "Success")
        => /\ Len(attempts[r]) = i
           /\ pc[r] \in {"respond", "done"}
           /\ Responded(r) =>
                \A k \in ReportedFields : response[r][k] = attempts[r][i].res[k]

C3_Witness ==
    \E r \in Req :
        /\ Responded(r)
        /\ Len(attempts[r]) = 2
        /\ attempts[r][1].outcome = "Timeout"
        /\ attempts[r][2].outcome = "Success"
        /\ response[r].engine = "PaddleOCR"
        /\ response[r].text = "two words"

\* C4: in automatic mode, when the primary and the secondary attempt both
\* fail, the error text of the returned result contains the error text of
\* both attempts.
C4_BothFailuresReported ==
    \A r \in Req :
        (/\ Responded(r)
         /\ Automatic(r)
         /\ Len(attempts[r]) = 2
         /\ AllAttemptsFailed(r))
        => \A i \in 1..2 : AttemptError(attempts[r][i]) \in MessagesIn(response[r].error)

\* C5: when every attempted engine fails, the returned result has
\* success=false, text "" and confidence 0.
C5_FailureIsReportedAsFailure ==
    \A r \in Req :
        (Responded(r) /\ AllAttemptsFailed(r))
        => /\ response[r].success = FALSE
           /\ response[r].text = ""
           /\ response[r].confidence = 0

\* The invoker of request r has handed control back to extract_text
\* (qwen_ocr_robust.py:339 has returned).
InvokerReturned(r) == pc[r] = "q_check"

C7_EveryAttemptIsDeadlineBounded ==
    \A r \in Req : loop = r => ENABLED HandlerStep(r)

\* C8: a result carries timeout_occurred=true only if the deadline elapsed
\* before the generation returned or raised.
C8_TimeoutOnlyAfterDeadline ==
    \A r \in Req : \A i \in 1..Len(attempts[r]) :
        Get(attempts[r][i].res, "timeout_occurred", FALSE) => elapsed[r]

\* The generation threads inside model.generate on the shared Qwen model.
Generating == {r \in Req : thread[r] \in {"running", "hung"}}

\* C9: at most one model.generate runs against the backend's handle at any
\* time, counting threads orphaned by an earlier timeout.
C9_OneGenerationAtATime == Cardinality(Generating) <= 1

\* C10: concurrent load_model calls for one backend construct its model
\* exactly once, and all callers observe the same outcome.
C10_SingleFlightLoad ==
    /\ \A b \in Backends : built[b] <= 1
    /\ \A t, u \in Callers :
          (cpc[t] = "returned" /\ cpc[u] = "returned" /\ cbackend[t] = cbackend[u])
          => cout[t] = cout[u]

\* The fields of the OCRResponse model (main.py:81-91) that the handler
\* fills from the engine's result.
ResponseFields == {"success", "text", "confidence", "language", "engine", "word_count", "error"}

\* A response the OCRResponse model accepts; a failed one names its error.
WellFormed(resp) ==
    /\ DOMAIN resp = ResponseFields
    /\ resp.success \in BOOLEAN
    /\ resp.confidence \in 0..100
    /\ resp.word_count \in Nat
    /\ ~resp.success => resp.error \notin {None, ""}

\* Where the handler of an accepted submission is while it runs.
Running ==
    {"saving", "select", "q_call", "q_load_blocked", "q_prepare", "q_join", "q_alive",
     "q_wr_error", "q_wr_success", "q_check", "q_failed", "q_decode", "p_call",
     "p_blocked", "respond"}

LastAttemptFailed(r) ==
    /\ attempts[r] # <<>>
    /\ attempts[r][Len(attempts[r])].outcome \in Failures

\* C11: a backend failure never crashes the request: the handler of an
\* accepted submission is running or has returned a well-formed response,
\* and after an attempt that failed (a failure result, a raised error, a
\* deadline that elapsed) the handler goes on to return one, at worst with
\* success=false (unless the secondary call made after it never returns).
C11_FailureNeverCrashesRequest ==
    /\ [](\A r \in Req :
            pc[r] \notin {"idle", "rejected", "closed"} =>
                \/ pc[r] \in Running
                \/ Responded(r) /\ WellFormed(response[r]))
    /\ \A r \in Req :
          (LastAttemptFailed(r) /\ pc[r] \in Running) ~> (Responded(r) \/ pc[r] = "p_blocked")

C11_Witness ==
    \E r \in Req :
        /\ Responded(r)
        /\ Len(attempts[r]) = 1
        /\ attempts[r][1].outcome = "HardError"
        /\ response[r].success = FALSE
        /\ response[r].error = "progress callback failed"

\* What RobustQwenOCR.extract_text answers when the model cannot be loaded
\* (qwen_ocr_robust.py:243-244, 188-189 through 388-390) or the image cannot
\* be read (261-268).
QwenExpectedErrors ==
    {"Failed to load model", "Failed to load any compatible model", "Failed to load image"}

\* The attempt met one of the expected failure modes: the model is missing or
\* cannot be loaded, or the image cannot be read.  PaddleOCREngine answers
\* all of them through _create_demo_response (paddle_ocr.py:84-86, 90-92,
\* 140-142), which marks its dict with demo_mode.
ExpectedFailure(att) ==
    \/ att.engine = "qwen" /\ AttemptError(att) \in QwenExpectedErrors
    \/ att.engine = "paddle" /\ Get(att.res, "demo_mode", FALSE)

\* C12: for the expected failure modes (model missing or not loadable, image
\* unreadable) every adapter's extract_text does not raise and returns a
\* result with success=false and an error message.
C12_ExpectedFailureIsSoftFailure ==
    \A r \in Req : \A i \in 1..Len(attempts[r]) :
        ExpectedFailure(attempts[r][i]) =>
            /\ attempts[r][i].outcome # "HardError"
            /\ Get(attempts[r][i].res, "success", TRUE) = FALSE
            /\ AttemptError(attempts[r][i]) \notin {None, ""}

\* The handler of r was entered and its locals are still there.
Submitted(r) == pc[r] \notin {"idle", "closed"}

\* No engine was attempted for r and it never reached the cascade.
NoEngineAttempted(r) ==
    /\ pc[r] = "rejected"
    /\ loop # r
    /\ attempts[r] = <<>>
    /\ thread[r] = "none"
    /\ result[r] = NoDict
    /\ response[r] = NoDict

\* C13 (as stated): a submission whose image type or language is invalid is
\* rejected before any engine is attempted.
C13_InvalidTypeOrLanguageRejected ==
    \A r \in Req :
        (Submitted(r) /\ (~Supported(upload[r]) \/ lang[r] \notin OfferedLanguages))
        => NoEngineAttempted(r)

\* C13 (amended): a submission whose image type is unsupported is rejected
\* before any engine is attempted; the language is not validated, so a
\* submission with a supported image is accepted whatever its language.
C13_UnsupportedImageRejected ==
    \A r \in Req :
        Submitted(r) =>
            IF Supported(upload[r]) THEN pc[r] # "rejected" ELSE NoEngineAttempted(r)

C13_Witness ==
    /\ pc[1] = "closed"
    /\ pc[2] = "rejected"
    /\ upload[2] = [content_type |-> "application/octet-stream", ext |-> ".exe"]
    /\ built["qwen"] = 1

\* The percentages the adapter `engine` reported during its invocation for
\* request r, in emission order (an engine is called at most once for r).
Percents(r, engine) ==
    LET own == SelectSeq(progress[r], LAMBDA ev : ev.engine = engine)
    IN  [i \in 1..Len(own) |-> own[i].percent]

NonDecreasing(ps) == \A i, j \in 1..Len(ps) : i < j => ps[i] <= ps[j]

\* C18: within one adapter invocation, including the model loading it
\* triggers and the retries over the model candidates, the percentages of
\* the emitted progress events are non-decreasing in emission order.
C18_ProgressNonDecreasing ==
    \A r \in Req : \A e \in Backends : NonDecreasing(Percents(r, e))

\* A percentage at or near 0: the first step of the adapters' scales.
NearZero(p) == p <= 10

\* The invocation of `engine` for r returned an extraction (not the demo
\* answer of PaddleOCREngine, which is reported under C12).
Extracted(r, engine) ==
    \E i \in 1..Len(attempts[r]) :
        /\ attempts[r][i].engine = engine
        /\ attempts[r][i].outcome = "Success"
        /\ ~ExpectedFailure(attempts[r][i])

\* C19: each adapter invocation's progress sequence starts at or near 0 and,
\* when the invocation succeeds, ends at 100; so in a cascade the observer
\* sees one sequence per invocation, each restarting near 0.
C19_ProgressStartsNearZeroEndsAt100 ==
    \A r \in Req : \A e \in Backends :
        LET ps == Percents(r, e) IN
            /\ ps # <<>> => NearZero(ps[1])
            /\ Extracted(r, e) => (ps # <<>> /\ ps[Len(ps)] = 100)

\* Where the handler is while RobustQwenOCR.extract_text runs.
InPrimary ==
    {"q_call", "q_load_blocked", "q_prepare", "q_join", "q_alive", "q_wr_error",
     "q_wr_success", "q_check", "q_failed", "q_decode"}

\* RobustQwenOCR.extract_text has been entered for r, or is about to be.
PrimaryInvoked(r) ==
    \/ pc[r] \in InPrimary
    \/ thread[r] # "none"
    \/ Percents(r, "qwen") # <<>>
    \/ \E i \in 1..Len(attempts[r]) : attempts[r][i].engine = "qwen"

\* C20 (as stated): with the selector "paddle" the primary's adapter is never
\* constructed and never invoked unless another request needs it (so not
\* while the first request of the process is a "paddle" one), and with the
\* selector "qwen" the secondary's adapter is never invoked.
C20_UnselectedAdapterNeverConstructed ==
    /\ (pc[1] \in Running \cup {"done"} /\ model[1] = "paddle")
       => (~qwenAvail /\ built["qwen"] = 0 /\ ~PrimaryInvoked(1))
    /\ \A r \in Req :
          (pc[r] \in Running \cup {"done"} /\ model[r] = "qwen") => ~SecondaryInvoked(r)

\* C20 (amended): a request with the selector "paddle" never invokes the
\* primary's adapter and never loads its model, and a request with the
\* selector "qwen" never invokes the secondary's adapter nor loads its model,
\* even when the primary fails; the adapter objects themselves exist from the
\* import of the server module on.
C20_UnselectedAdapterNeverInvoked ==
    /\ [](\A r \in Req :
            pc[r] \in Running \cup {"done"} =>
                /\ model[r] = "paddle" => ~PrimaryInvoked(r)
                /\ model[r] = "qwen" =>
                      (~SecondaryInvoked(r) /\ pc[r] # "p_call" /\ Percents(r, "paddle") = <<>>))
    /\ [][\A r \in Req :
            loop = r =>
                /\ model[r] = "paddle" =>
                      (qwenLoaded' = qwenLoaded /\ built'["qwen"] = built["qwen"])
                /\ model[r] = "qwen" =>
                      (paddleLoaded' = paddleLoaded /\ built'["paddle"] = built["paddle"])]_vars

C20_Witness ==
    \E r \in Req :
        /\ model[r] = "qwen"
        /\ Responded(r)
        /\ Len(attempts[r]) = 1
        /\ attempts[r][1].outcome = "Timeout"
        /\ response[r].engine = "Qwen2.5-VL-3B-Instruct (Timeout)"

\* The event with percentage p has been delivered to client o.
Delivered(o, p) == \E j \in 1..Len(received[o]) : received[o][j] = p

\* C14: every progress event an adapter emits while a submission's invocation
\* is in flight is passed to the ConnectionManager and pushed to all the
\* clients registered at that time.
C14_EveryEventIsBroadcast ==
    \A r \in Req :
        loop = r =>
            \A i \in 1..Len(progress[r]) : \A o \in Observers :
                InList(o) => (bcount > 0 /\ Delivered(o, progress[r][i].percent))

\* The current broadcast has ended (send_progress returned).
BroadcastEnded == bpc = "idle" /\ bcount > 0

\* C15: one send_progress call attempts delivery to every client that is
\* registered when it starts (and still is when it ends), including the
\* clients that come after one whose delivery fails during that call.
C15_BroadcastReachesEveryObserver ==
    BroadcastEnded => \A o \in bstart : InList(o) => o \in btried

\* C16: a client whose delivery fails is removed from the list by that
\* broadcast and stays removed: no later broadcast attempts delivery to it.
C16_FailedObserverStaysRemoved ==
    /\ [](\A o \in failed : ~InList(o))
    /\ [][\A o \in failed :
            /\ o \in btried' => (o \in btried /\ bcount' = bcount)
            /\ bcur' = o => bcur = o]_vars

C16_Witness ==
    \E o, q \in Observers :
        /\ o \in failed
        /\ bcount = MaxBroadcasts
        /\ BroadcastEnded
        /\ o \notin bstart
        /\ q \in btried
        /\ Len(received[q]) = MaxBroadcasts

\* C17: a slow or dead client does not block the others: when delivery to
\* one client never completes, the broadcast can still go on, or every other
\* client registered at its start has already been served.
C17_SlowObserverBlocksNoOne ==
    bpc = "stuck" =>
        \/ ENABLED BroadcastStep
        \/ \A o \in bstart \ {bcur} : InList(o) => o \in btried

\* self.model_loaded of backend b.
Loaded(b) == IF b = "qwen" THEN qwenLoaded ELSE paddleLoaded

C22_LoadedIsPermanent ==
    [][\A b \in Backends :
          Loaded(b) => (Loaded(b)' /\ built'[b] = built[b])]_vars

\* C22 (amended): once a backend is loaded, the only operation that resets
\* model_loaded is PaddleOCREngine.set_language with a new language (which
\* constructs the model again), and a load_model call that starts on a loaded
\* backend returns True without constructing anything.
C22_LoadedUntilLanguageChange ==
    /\ [][\A b \in Backends :
            (Loaded(b) /\ ~Loaded(b)') => (b = "paddle" /\ paddleLang' # paddleLang)]_vars
    /\ [][\A t \in Callers :
            (cpc[t] = "idle" /\ cpc'[t] # "idle" /\ paddleLang' = paddleLang
             /\ Loaded(cbackend'[t]))
            => (cpc'[t] = "returned" /\ cout'[t] = "True" /\ UNCHANGED engineVars)]_vars

C22_Witness ==
    /\ paddleLang = "ch"
    /\ paddleLoaded
    /\ built["paddle"] = 2
    /\ \E t \in Callers : cpc[t] = "returned" /\ cout[t] = "True" /\ cbackend[t] = "paddle"
    /\ \A t \in Callers : cbackend[t] = "paddle" \/ cpc[t] = "idle"

\* The result the handler answers r with is that of a primary attempt that
\* timed out ("qwen" mode, or automatic mode where the fallback failed too).
AnsweredWithPrimaryTimeout(r) ==
    /\ Responded(r)
    /\ PrimaryOutcome(r) = "Timeout"
    /\ result[r] = attempts[r][1].res

\* C23: when the outcome returned to the caller stems from a primary attempt
\* that timed out, the response carries timeout_occurred=true and
\* fallback_recommended=true.
C23_TimeoutIsPreservedInResponse ==
    \A r \in Req :
        AnsweredWithPrimaryTimeout(r) =>
            /\ Get(response[r], "timeout_occurred", FALSE)
            /\ Get(response[r], "fallback_recommended", FALSE)

\* C24: at every moment the health probe's model_loaded value equals whether
\* the primary backend's model has been constructed: false before the first
\* successful load and when the primary is unavailable, true after it.
C24_HealthReflectsPrimaryLoaded ==
    /\ []((qwenAvail /\ qwenLoaded) <=> built["qwen"] >= 1)
    /\ [][health' # health =>
            /\ health'.model_loaded = (built'["qwen"] >= 1)
            /\ ~qwenAvail => ~health'.model_loaded]_vars

C24_Witness ==
    /\ health # NoDict
    /\ health.model_loaded
    /\ built["qwen"] = 1
    /\ pc[1] = "done"

\* An engine call made for r is in flight.
EngineCallInFlight(r) == loop = r /\ pc[r] \in InPrimary \cup {"p_call", "p_blocked"}

\* C25: inbound requests are handled independently: while one submission's
\* engine call is in flight, a health probe or an observer registration can
\* start and complete without waiting for it.
C25_RequestsAreIndependent ==
    \A r \in Req :
        EngineCallInFlight(r) =>
            /\ health = NoDict => ENABLED HealthCheck
            /\ \A o \in Observers : ws[o] = "new" => ENABLED Connect(o)

\* _generate_with_timeout found the thread alive after the deadline, wrote
\* its timeout outcome and returned it; extract_text is reading it
\* (qwen_ocr_robust.py:341-346).
CallerActsOnTimeout(r) == alive[r] /\ pc[r] \in {"q_check", "q_failed", "q_decode"}

\* C26: once _generate_with_timeout has decided on a timeout, the outcome its
\* caller acts on is stable: no later step of the orphaned thread changes
\* the field the caller is about to read (success at line 341, error at 343,
\* output at 346), and a caller that reads success=true finds the output set.
C26_TimeoutOutcomeIsStable ==
    /\ [](\A r \in Req : pc[r] = "q_decode" => gen[r].output # None)
    /\ [][\A r \in Req :
            CallerActsOnTimeout(r) =>
                /\ pc[r] = "q_check" => gen'[r].success = gen[r].success
                /\ pc[r] = "q_failed" => gen'[r].error = gen[r].error
                /\ pc[r] = "q_decode" => gen'[r].output = gen[r].output]_vars

\* The fallback of an automatic request r has returned or raised after a
\* failed primary attempt.
FallbackSettled(r) ==
    /\ Automatic(r)
    /\ pc[r] \in {"respond", "done"}
    /\ Len(attempts[r]) = 2

SelectionMade(r) == attempts[r] # <<>> \/ result[r] # NoDict

\* C28: when the primary backend is unavailable (robust_qwen_ocr is None), an
\* automatic request invokes the secondary directly without any primary
\* attempt, and a "qwen" request returns a failure result with a
\* "not available" error without invoking the secondary.
C28_PrimaryUnavailable ==
    \A r \in Req :
        (~qwenAvail /\ Responded(r) /\ SelectionMade(r)) =>
            /\ Automatic(r) => (~PrimaryAttempted(r) /\ SecondaryInvoked(r))
            /\ model[r] = "qwen" =>
                  /\ attempts[r] = <<>>
                  /\ response[r].success = FALSE
                  /\ response[r].error = "Qwen2.5-VL not available"

\* A selector value the handler has no branch of its own for.
UnknownSelector(r) == model[r] \notin {"paddle", "qwen", "auto"}

\* C29: an engine selector other than the primary-only and secondary-only
\* values is not rejected; every such value, unknown strings included, runs
\* the automatic cascade: the selection goes to the primary when it is
\* available and to the secondary otherwise, never to a response, and the
\* secondary follows exactly a failed primary.
C29_UnknownSelectorRunsCascade ==
    /\ [](\A r \in Req :
            UnknownSelector(r) =>
                /\ pc[r] = "rejected" => ~Supported(upload[r])
                /\ CascadeDecided(r) =>
                      IF qwenAvail
                      THEN /\ PrimaryAttempted(r)
                           /\ SecondaryInvoked(r) <=> PrimaryOutcome(r) \in Failures
                      ELSE ~PrimaryAttempted(r) /\ SecondaryInvoked(r))
    /\ [][\A r \in Req :
            (UnknownSelector(r) /\ pc[r] = "select" /\ pc'[r] # "select") =>
                /\ pc'[r] = IF qwenAvail THEN "q_call" ELSE "p_call"
                /\ result'[r] = result[r]]_vars

C29_Witness ==
    \E r \in Req :
        /\ UnknownSelector(r)
        /\ Responded(r)
        /\ Len(attempts[r]) = 2
        /\ attempts[r][1].engine = "qwen"
        /\ attempts[r][1].outcome \in Failures
        /\ attempts[r][2].engine = "paddle"


\* C30: removing an observer is safe in every order of events: a disconnect
\* of an observer that a broadcast already pruned after a failed delivery
\* raises no error, and the list holds exactly the observers that registered
\* and have neither failed nor disconnected.
C30_RemovalIsSafe ==
    /\ \A o \in Observers : ws[o] # "crashed"
    /\ {o \in Observers : InList(o)} = {o \in Observers : ws[o] = "open" /\ o \notin failed}

====
